---- MODULE Spec2Model ----
(***************************************************************************)
(* Model of Exercise 2/python_script/claim_password.py: the derivation of  *)
(* a password from two integers read from storage slots,                   *)
(*     password = int.from_bytes(keccak256((hidden_password + salt)        *)
(*                                .to_bytes(32, 'big')), 'big').           *)
(* Python integers are unbounded, so they are modelled as a sign and a     *)
(* big-endian magnitude in base 256; Keccak is modelled bit by bit.        *)
(***************************************************************************)
EXTENDS Integers, Sequences, FiniteSets

(***************************************************************************)
(* Python's int: [neg, mag], mag the base-256 digits, most significant     *)
(* first, no leading zero; zero is [neg |-> FALSE, mag |-> <<>>].          *)
(***************************************************************************)
Byte == 0..255

Zeros(n) == [i \in 1..n |-> 0]

Min(S) == CHOOSE m \in S : \A n \in S : m <= n

Max(a, b) == IF a >= b THEN a ELSE b

\* s without its leading zeros
Trim(s) ==
    LET nz == {i \in 1..Len(s) : s[i] # 0}
    IN  IF nz = {} THEN <<>> ELSE SubSeq(s, Min(nz), Len(s))

\* s left-padded with zeros to n digits (n >= Len(s))
PadLeft(s, n) == Zeros(n - Len(s)) \o s

\* a + b on magnitudes of equal length n: the result has n + 1 digits.
\* The carry into digit i comes from the nearest lower digit j whose sum
\* overflows, every digit between the two summing to 255.
AddDigits(a, b) ==
    LET n == Len(a)
        carry(i) == IF \E j \in (i + 1)..n :
                          /\ a[j] + b[j] >= 256
                          /\ \A m \in (i + 1)..(j - 1) : a[m] + b[m] = 255
                    THEN 1 ELSE 0
    IN  <<carry(0)>> \o [i \in 1..n |-> (a[i] + b[i] + carry(i)) % 256]

AddMag(a, b) ==
    LET n == Max(Len(a), Len(b))
    IN  Trim(AddDigits(PadLeft(a, n), PadLeft(b, n)))

\* a - b on magnitudes of equal length, a >= b.  The borrow out of digit i
\* comes from the nearest lower digit j with a[j] < b[j], every digit
\* between the two having a[m] = b[m].
SubDigits(a, b) ==
    LET n == Len(a)
        borrow(i) == IF \E j \in (i + 1)..n :
                           /\ a[j] < b[j]
                           /\ \A m \in (i + 1)..(j - 1) : a[m] = b[m]
                     THEN 1 ELSE 0
    IN  [i \in 1..n |-> (a[i] - b[i] - borrow(i) + 256) % 256]

SubMag(a, b) ==
    LET n == Max(Len(a), Len(b))
    IN  Trim(SubDigits(PadLeft(a, n), PadLeft(b, n)))

\* a < b on magnitudes without leading zeros
LessMag(a, b) ==
    IF Len(a) # Len(b) THEN Len(a) < Len(b)
    ELSE LET d == {i \in 1..Len(a) : a[i] # b[i]}
         IN  d # {} /\ a[Min(d)] < b[Min(d)]

MkInt(neg, mag) == [neg |-> neg /\ mag # <<>>, mag |-> mag]

\* the sum kept in a 32-bit word: the low four bytes of x + y
PyAddWrap32(x, y) ==
    LET r == IF x.neg = y.neg THEN MkInt(x.neg, AddMag(x.mag, y.mag))
             ELSE IF LessMag(x.mag, y.mag)
             THEN MkInt(y.neg, SubMag(y.mag, x.mag))
             ELSE MkInt(x.neg, SubMag(x.mag, y.mag))
        n == Len(r.mag)
    IN  MkInt(r.neg, Trim(SubSeq(r.mag, Max(1, n - 3), n)))

\* x + y on the slots' digits joined end to end, as + does on strings
PyAddConcat(x, y) == MkInt(x.neg, Trim(x.mag \o y.mag))

\* int.__add__
PyAdd(x, y) ==
    IF x.neg = y.neg THEN MkInt(x.neg, AddMag(x.mag, y.mag))
    ELSE IF LessMag(x.mag, y.mag) THEN MkInt(y.neg, SubMag(y.mag, x.mag))
    ELSE MkInt(x.neg, SubMag(x.mag, y.mag))

\* mag * 10 + d, the step of reading a decimal literal
RECURSIVE MulAddDigits(_, _, _, _)
MulAddDigits(a, m, i, carry) ==
    IF i = 0 THEN <<carry>>
    ELSE LET t == a[i] * m + carry
         IN  Append(MulAddDigits(a, m, i - 1, t \div 256), t % 256)

\* the magnitude a string of decimal digits denotes
RECURSIVE DecimalMag(_)
DecimalMag(digits) ==
    IF digits = <<>> THEN <<>>
    ELSE LET n   == Len(digits)
             acc == DecimalMag(SubSeq(digits, 1, n - 1))
         IN  Trim(MulAddDigits(acc, 10, Len(acc), digits[n]))

\* the int a decimal literal denotes
PyLit(neg, digits) == MkInt(neg, DecimalMag(digits))

(***************************************************************************)
(* int.to_bytes(length, byteorder='big') (signed=False) and                *)
(* int.from_bytes(bytes, byteorder='big').                                 *)
(***************************************************************************)
\* to_bytes keeping the low length bytes of a value that does not fit
to_bytes_truncating(x, length) ==
    IF x.neg
    THEN [raised |-> "OverflowError",
          msg |-> "can't convert negative int to unsigned"]
    ELSE LET m == PadLeft(x.mag, Max(length, Len(x.mag)))
         IN  [raised |-> "",
              bytes |-> SubSeq(m, Len(m) - length + 1, Len(m))]

\* to_bytes with byteorder='little'
to_bytes_little(x, length) ==
    IF x.neg
    THEN [raised |-> "OverflowError",
          msg |-> "can't convert negative int to unsigned"]
    ELSE IF Len(x.mag) > length
    THEN [raised |-> "OverflowError", msg |-> "int too big to convert"]
    ELSE [raised |-> "",
          bytes |-> [i \in 1..length |->
                       IF i <= Len(x.mag) THEN x.mag[Len(x.mag) + 1 - i]
                       ELSE 0]]

to_bytes(x, length) ==
    IF x.neg
    THEN [raised |-> "OverflowError",
          msg |-> "can't convert negative int to unsigned"]
    ELSE IF Len(x.mag) > length
    THEN [raised |-> "OverflowError", msg |-> "int too big to convert"]
    ELSE [raised |-> "", bytes |-> PadLeft(x.mag, length)]

from_bytes(bytes) == MkInt(FALSE, Trim(bytes))

\* long division of digits lo..hi of a by m, rem carried in from the
\* digits above: the quotient's digits, then the remainder
RECURSIVE DivDigits(_, _, _, _, _)
DivDigits(a, m, lo, hi, rem) ==
    IF lo > hi THEN <<rem>>
    ELSE IF lo = hi THEN <<(rem * 256 + a[lo]) \div m, (rem * 256 + a[lo]) % m>>
    ELSE LET mid == (lo + hi) \div 2
             L == DivDigits(a, m, lo, mid, rem)
             R == DivDigits(a, m, mid + 1, hi, L[Len(L)])
         IN  SubSeq(L, 1, Len(L) - 1) \o R

\* the decimal digits of a magnitude, six at a time, by repeated division
\* by 10^6; leading zeros are left in
RECURSIVE DecimalDigits(_)
DecimalDigits(mag) ==
    IF mag = <<>> THEN <<>>
    ELSE LET qr == DivDigits(mag, 1000000, 1, Len(mag), 0)
             q  == Trim(SubSeq(qr, 1, Len(qr) - 1))
             c  == qr[Len(qr)]
         IN  DecimalDigits(q)
               \o <<c \div 100000, (c \div 10000) % 10, (c \div 1000) % 10,
                    (c \div 100) % 10, (c \div 10) % 10, c % 10>>

\* str(int) for a non-negative int: its decimal digits
PyStr(x) == IF x.mag = <<>> THEN <<0>> ELSE Trim(DecimalDigits(x.mag))

(***************************************************************************)
(* Crypto.Hash.keccak: Keccak[c = 2 * digest_bits] with the original       *)
(* Keccak padding (0x01 ... 0x80).  The state is 1600 bits, bit             *)
(* 64 * (x + 5 * y) + z being bit z of lane (x, y); byte j of the state    *)
(* holds bits 8 * j .. 8 * j + 7, least significant first.                 *)
(***************************************************************************)
Pow2 == <<1, 2, 4, 8, 16, 32, 64, 128>>

BitOf(b, k) == (b \div Pow2[k + 1]) % 2 = 1

StateBits == 0..1599

\* the bit string f (a function on 0..n-1) as the sequence of its values:
\* bit i is element i + 1
BitString(f, n) == [i \in 1..n |-> f[i - 1]] \o <<>>

\* RotationOffsets[x + 5 * y + 1]: the rho offset of lane (x, y)
RotationOffsets ==
    << 0,  1, 62, 28, 27,
      36, 44,  6, 55, 20,
       3, 10, 43, 25, 39,
      41, 45, 15, 21,  8,
      18,  2, 61, 56, 14>>

\* RoundConstants[r + 1]: the bits set in the iota constant of round r
RoundConstants ==
    <<{0}, {1, 7, 15}, {1, 3, 7, 15, 63}, {15, 31, 63}, {0, 1, 3, 7, 15},
      {0, 31}, {0, 7, 15, 31, 63}, {0, 3, 15, 63}, {1, 3, 7}, {3, 7},
      {0, 3, 15, 31}, {1, 3, 31}, {0, 1, 3, 7, 15, 31}, {0, 1, 3, 7, 63},
      {0, 3, 7, 15, 63}, {0, 1, 15, 63}, {1, 15, 63}, {7, 63}, {1, 3, 15},
      {1, 3, 31, 63}, {0, 7, 15, 31, 63}, {7, 15, 63}, {0, 31},
      {3, 15, 31, 63}>>

\* one round of Keccak-f[1600] on the bit string A: theta (C, D, T), rho
\* and pi (B), chi and iota
KeccakRound(A, r) ==
    LET C == BitString([j \in 0..319 |->
                ((((A[j + 1] # A[j + 321]) # A[j + 641]) # A[j + 961])
                    # A[j + 1281])], 320)
        D == BitString([j \in 0..319 |->
                LET x == j \div 64
                    z == j % 64
                IN  C[64 * ((x + 4) % 5) + z + 1]
                      # C[64 * ((x + 1) % 5) + ((z + 63) % 64) + 1]], 320)
        T == BitString([i \in StateBits |-> A[i + 1] # D[(i % 320) + 1]],
                       1600)
        B == BitString([i \in StateBits |->
                LET X == (i \div 64) % 5
                    Y == i \div 320
                    z == i % 64
                    l == ((X + 3 * Y) % 5) + 5 * X
                IN  T[64 * l + ((z + 64 - RotationOffsets[l + 1]) % 64) + 1]],
                       1600)
    IN  BitString([i \in StateBits |->
           LET X == (i \div 64) % 5
               Y == i \div 320
               z == i % 64
               chi == B[i + 1]
                        # (~B[320 * Y + 64 * ((X + 1) % 5) + z + 1]
                            /\ B[320 * Y + 64 * ((X + 2) % 5) + z + 1])
           IN  IF i < 64 THEN chi # (i \in RoundConstants[r + 1])
                         ELSE chi], 1600)

\* rounds lo .. hi of the permutation: rounds lo .. mid give M, and rounds
\* mid + 1 .. hi are then applied to M
RECURSIVE KeccakRounds(_, _, _)
KeccakRounds(A, lo, hi) ==
    IF lo = hi THEN KeccakRound(A, lo)
    ELSE LET mid == (lo + hi) \div 2
         IN  CHOOSE R \in {KeccakRounds(M, mid + 1, hi) :
                             M \in {KeccakRounds(A, lo, mid)}} : TRUE

\* Keccak-f[1600]
KeccakF(A) == KeccakRounds(A, 0, 23)

\* the padding of SHA-3 (domain bits 0x06), not of the original Keccak
Sha3Pad(data, rate) ==
    LET padlen == rate - (Len(data) % rate)
    IN  IF padlen = 1 THEN data \o <<134>>
        ELSE data \o <<6>> \o Zeros(padlen - 2) \o <<128>>

\* the multi-rate padding of a message to whole blocks of rate bytes
KeccakPad(data, rate) ==
    LET padlen == rate - (Len(data) % rate)
    IN  IF padlen = 1 THEN data \o <<129>>
        ELSE data \o <<1>> \o Zeros(padlen - 2) \o <<128>>

RECURSIVE Absorb(_, _, _)
Absorb(A, padded, rate) ==
    IF padded = <<>> THEN A
    ELSE LET X == BitString([i \in StateBits |->
                     IF i < 8 * rate
                     THEN A[i + 1] # BitOf(padded[(i \div 8) + 1], i % 8)
                     ELSE A[i + 1]], 1600)
         IN  Absorb(KeccakF(X), SubSeq(padded, rate + 1, Len(padded)),
                    rate)

Squeeze(A, n) ==
    [j \in 1..n |->
        LET b(k) == IF A[8 * (j - 1) + k + 1] THEN Pow2[k + 1] ELSE 0
        IN  b(0) + b(1) + b(2) + b(3) + b(4) + b(5) + b(6) + b(7)]

\* the digest taken to be the whole rate, not digest_bits / 8 bytes
KeccakWholeRate(data, bits) ==
    LET rate == 200 - bits \div 4
    IN  Squeeze(Absorb(BitString([i \in StateBits |-> FALSE], 1600),
                       KeccakPad(data, rate), rate),
                rate)

\* keccak.new(digest_bits=bits).update(data).digest()
Keccak(data, bits) ==
    LET rate == 200 - bits \div 4
    IN  Squeeze(Absorb(BitString([i \in StateBits |-> FALSE], 1600),
                       KeccakPad(data, rate), rate),
                bits \div 8)

(***************************************************************************)
(* The script.  Its two inputs are literals read from storage slots; they  *)
(* are drawn here from sets of integers around the edges of the 32-byte    *)
(* range, so that every outcome of lines 7-14 is reached.                  *)
(***************************************************************************)
MaxSmall == 2

\* hidden_password and salt as the script has them (lines 4 and 5)
HiddenPasswordLit == PyLit(FALSE, <<5, 4, 4, 3, 8, 7, 1, 0, 4, 5, 9, 7>>)
SaltLit == PyLit(FALSE, <<1, 7, 5, 4, 9, 3, 3, 4, 9, 2>>)

\* the digest width the script asks of keccak.new (line 10)
digest_bits == 256
\* the length the script asks of to_bytes (line 8)
encoded_length == 32

SmallInt(n) == IF n < 0 THEN MkInt(TRUE, <<-n>>)
               ELSE MkInt(FALSE, Trim(<<n>>))

\* 2^256
TwoTo256 == MkInt(FALSE, <<1>> \o Zeros(32))

Small == {SmallInt(n) : n \in 0..MaxSmall}

\* 2^256 - n, n in 0..MaxSmall
NearTop == {PyAdd(TwoTo256, SmallInt(-n)) : n \in 0..MaxSmall}

BaseValues == {SmallInt(-1), HiddenPasswordLit} \cup Small \cup NearTop
Salts == {SmallInt(-1), SmallInt(5), SaltLit} \cup Small

NoInt == MkInt(FALSE, <<>>)
NoHash == [digest_bits |-> 0, data |-> <<>>]

VARIABLES
    hidden_password,  \* line 4
    salt,             \* line 5
    value,            \* line 7
    encoded,          \* line 8
    k,                \* lines 10-11: the hash object, [digest_bits, data]
    digest,           \* line 12: what k.digest() returned
    password,         \* line 12
    bound,            \* the names assigned so far
    pc,               \* the line to run next, or "exit"
    raised,           \* the uncaught exception, [type, msg], or <<>>
    exit_code,        \* the process's exit status once pc = "exit"
    stdout,           \* the lines printed
    last              \* the previous run of the script, <<>> if none

vars == <<hidden_password, salt, value, encoded, k, digest, password, bound,
          pc, raised, exit_code, stdout, last>>

\* a fresh process running the script with the two storage slots given
Start(h, s) ==
    /\ hidden_password = h
    /\ salt = s
    /\ value = NoInt
    /\ encoded = <<>>
    /\ k = NoHash
    /\ digest = <<>>
    /\ password = NoInt
    /\ bound = {"hidden_password", "salt"}
    /\ pc = "line7"
    /\ raised = <<>>
    /\ exit_code = 0
    /\ stdout = <<>>

Init ==
    /\ \E h \in BaseValues, s \in Salts : Start(h, s)
    /\ last = <<>>

\* an uncaught exception ends the process with status 1
Raise(e) ==
    /\ raised' = <<[type |-> e.raised, msg |-> e.msg]>>
    /\ exit_code' = 1
    /\ pc' = "exit"

\* value = hidden_password + salt
Line7 ==
    /\ pc = "line7"
    /\ value' = PyAdd(hidden_password, salt)
    /\ bound' = bound \cup {"value"}
    /\ pc' = "line8"
    /\ UNCHANGED <<hidden_password, salt, encoded, k, digest, password,
                   raised, exit_code, stdout, last>>

\* encoded = value.to_bytes(32, byteorder='big')
Line8 ==
    /\ pc = "line8"
    /\ LET r == to_bytes(value, encoded_length)
       IN  IF r.raised # ""
           THEN /\ Raise(r)
                /\ UNCHANGED <<encoded, bound>>
           ELSE /\ encoded' = r.bytes
                /\ bound' = bound \cup {"encoded"}
                /\ pc' = "line10"
                /\ UNCHANGED <<raised, exit_code>>
    /\ UNCHANGED <<hidden_password, salt, value, k, digest, password,
                   stdout, last>>

\* a hash object of 512 bits, whatever width is asked for
NewHash512(bits) == [digest_bits |-> 2 * 256, data |-> <<>>]

\* keccak.new(digest_bits=bits)
NewHash(bits) == [digest_bits |-> bits, data |-> <<>>]

\* k = keccak.new(digest_bits=256)
Line10 ==
    /\ pc = "line10"
    /\ k' = NewHash(digest_bits)
    /\ bound' = bound \cup {"k"}
    /\ pc' = "line11"
    /\ UNCHANGED <<hidden_password, salt, value, encoded, digest, password,
                   raised, exit_code, stdout, last>>

\* k.update(encoded)
Line11 ==
    /\ pc = "line11"
    /\ k' = [k EXCEPT !.data = @ \o encoded]
    /\ pc' = "line12"
    /\ UNCHANGED <<hidden_password, salt, value, encoded, digest, password,
                   bound, raised, exit_code, stdout, last>>

\* password = int.from_bytes(k.digest(), byteorder='big')
Line12 ==
    /\ pc = "line12"
    /\ digest' = Keccak(k.data, k.digest_bits)
    /\ password' = from_bytes(digest')
    /\ bound' = bound \cup {"password"}
    /\ pc' = "line14"
    /\ UNCHANGED <<hidden_password, salt, value, encoded, k, raised,
                   exit_code, stdout, last>>

\* print("Password:", password), then the script ends
Line14 ==
    /\ pc = "line14"
    /\ stdout' = Append(stdout, [label |-> "Password:",
                                 number |-> PyStr(password)])
    /\ pc' = "exit"
    /\ exit_code' = 0
    /\ UNCHANGED <<hidden_password, salt, value, encoded, k, digest,
                   password, bound, raised, last>>

Next ==
    \/ Line7
    \/ Line8
    \/ Line10
    \/ Line11
    \/ Line12
    \/ Line14

Spec == Init /\ [][Next]_vars

(***************************************************************************)
(* The script run again and again: each run is a fresh process, and last   *)
(* remembers how the run before it ended.                                  *)
(***************************************************************************)
Outcome ==
    [hidden_password |-> hidden_password, salt |-> salt, value |-> value,
     encoded |-> encoded, password |-> password, bound |-> bound,
     raised |-> raised, exit_code |-> exit_code, stdout |-> stdout]

Rerun ==
    /\ pc = "exit"
    /\ last' = <<Outcome>>
    /\ \E h \in Small, s \in Small :
          /\ hidden_password' = h
          /\ salt' = s
    /\ value' = NoInt
    /\ encoded' = <<>>
    /\ k' = NoHash
    /\ digest' = <<>>
    /\ password' = NoInt
    /\ bound' = {"hidden_password", "salt"}
    /\ pc' = "line7"
    /\ raised' = <<>>
    /\ exit_code' = 0
    /\ stdout' = <<>>

InitRerun ==
    /\ \E h \in Small, s \in Small : Start(h, s)
    /\ last = <<>>

NextRerun ==
    \/ Line7
    \/ Line8
    \/ Line10
    \/ Line11
    \/ Line12
    \/ Line14
    \/ Rerun

SpecRerun == InitRerun /\ [][NextRerun]_vars

(***************************************************************************)
(* Properties.                                                             *)
(***************************************************************************)
\* 0 <= x < 2^256: x fits 32 bytes unsigned
InRange(x) == ~x.neg /\ Len(x.mag) <= 32

NonNegInputs == ~hidden_password.neg /\ ~salt.neg

ValidInputs == NonNegInputs /\ InRange(PyAdd(hidden_password, salt))

\* -x
Negated(x) == MkInt(~x.neg, x.mag)

\* the value of a magnitude of at most three digits
NatOf(mag) ==
    LET m == PadLeft(mag, 3)
    IN  (m[1] * 256 + m[2]) * 256 + m[3]

\* 2^256 - 1
MaxUint256 == MkInt(FALSE, [i \in 1..32 |-> 255])

\* what the script raises for a value too large for its 32 bytes: the
\* range error of the encoding step
EncodingRangeError ==
    [type |-> "OverflowError", msg |-> "int too big to convert"]

\* C1: for non-negative inputs whose sum is 2^256 or more the run fails at
\* the encoding step with the range error: the sum is exact (it still
\* exceeds 32 bytes and sum - salt gives hidden_password back), nothing is
\* encoded, no password is bound and nothing is printed.
C1_OverflowRejected ==
    (NonNegInputs /\ ~InRange(PyAdd(hidden_password, salt))) =>
        /\ pc \in {"line7", "line8", "exit"}
        /\ "encoded" \notin bound
        /\ "password" \notin bound
        /\ stdout = <<>>
        /\ "value" \in bound =>
              /\ ~value.neg
              /\ Len(value.mag) > 32
              /\ PyAdd(value, Negated(salt)) = hidden_password
        /\ pc = "exit" =>
              /\ raised = <<EncodingRangeError>>
              /\ exit_code = 1

C1_Witness ==
    /\ pc = "exit"
    /\ hidden_password = MaxUint256
    /\ salt = SmallInt(1)
    /\ value = TwoTo256
    /\ raised = <<EncodingRangeError>>

\* C2: a negative hidden_password or salt makes the run fail, with no
\* password bound and nothing printed, whatever the sum is.
C2_NegativeRejected ==
    (hidden_password.neg \/ salt.neg) =>
        /\ "password" \notin bound
        /\ stdout = <<>>
        /\ pc = "exit" => (raised # <<>> /\ exit_code # 0)

\* C3: the encoding is exactly 32 bytes, the value's digits most
\* significant first after a left padding of zeros, and reading the 32
\* bytes big-endian gives the value back.
C3_EncodingRoundTrip ==
    "encoded" \in bound =>
        LET n == Len(value.mag)
        IN  /\ InRange(value)
            /\ Len(encoded) = 32
            /\ \A i \in 1..32 : encoded[i] \in Byte
            /\ \A i \in 1..(32 - n) : encoded[i] = 0
            /\ \A i \in 1..n : encoded[32 - n + i] = value.mag[i]
            /\ from_bytes(encoded) = value

C3_Witness ==
    /\ "encoded" \in bound
    /\ Len(value.mag) > 1
    /\ Len(value.mag) < 32
    /\ encoded[32] # encoded[31]

\* C4: for valid inputs the password is in [0, 2^256): it is the
\* big-endian unsigned reading of a digest of exactly 32 bytes.
C4_PasswordInRange ==
    (ValidInputs /\ "password" \in bound) =>
        /\ Len(digest) = 32
        /\ \A i \in 1..32 : digest[i] \in Byte
        /\ InRange(password)
        /\ to_bytes(password, 32) = [raised |-> "", bytes |-> digest]

C4_Witness ==
    /\ ValidInputs
    /\ pc = "exit"
    /\ "password" \in bound
    /\ Len(password.mag) > 30

\* an error condition of the derivation: a negative input, a sum of 2^256
\* or more, or a hash object of another width than 256 bits
ErrorCondition ==
    \/ hidden_password.neg
    \/ salt.neg
    \/ ~InRange(PyAdd(hidden_password, salt))
    \/ ("k" \in bound /\ k.digest_bits # 256)

\* C6: a run that hits an error condition never prints a Password line
\* and ends with a non-zero status; a Password line is printed only after
\* every step of the derivation has succeeded.
C6_NoPasswordOnError ==
    /\ ErrorCondition =>
          /\ stdout = <<>>
          /\ pc = "exit" => exit_code # 0
    /\ stdout # <<>> =>
          /\ raised = <<>>
          /\ bound = {"hidden_password", "salt", "value", "encoded", "k",
                      "password"}

Keccak256OfZeros32 ==
    << 41,  13, 236, 217,  84, 139,  98, 168, 214,   3,  69, 169, 136,  56,
      111, 200,  75, 166, 188, 149,  72,  64,   8, 246,  54,  47, 147,  22,
       14, 243, 229,  99>>

\* C8: with both inputs 0 the run succeeds: the hash is fed exactly 32
\* zero bytes, and the password is the big-endian reading of their hash.
C8_ZeroInputs ==
    (hidden_password = NoInt /\ salt = NoInt) =>
        /\ raised = <<>>
        /\ "value" \in bound => value = NoInt
        /\ "encoded" \in bound => encoded = Zeros(32)
        /\ pc \in {"line12", "line14", "exit"} => k.data = Zeros(32)
        /\ "password" \in bound =>
              /\ digest = Keccak256OfZeros32
              /\ password = MkInt(FALSE, Keccak256OfZeros32)
        /\ pc = "exit" =>
              /\ exit_code = 0
              /\ "password" \in bound
              /\ Len(stdout) = 1

C8_Witness ==
    /\ hidden_password = NoInt
    /\ salt = NoInt
    /\ pc = "exit"
    /\ password = MkInt(FALSE, Keccak256OfZeros32)
    /\ Len(stdout) = 1

\* 546142038089 = 0x7f289a2849 in 32 bytes, big-endian
Encoded546142038089 == Zeros(27) \o <<127, 40, 154, 40, 73>>

\* Keccak-256 of Encoded546142038089:
\* 173d9ad73b99accb96dbc9ee1ec7d23de0dfaff022e796c1ae01c74a9cc1617f
Keccak256OfScenario ==
    << 23,  61, 154, 215,  59, 153, 172, 203, 150, 219, 201, 238,  30, 199,
      210,  61, 224, 223, 175, 240,  34, 231, 150, 193, 174,   1, 199,  74,
      156, 193,  97, 127>>

\* the names bound when the script is about to run each line
BoundAt ==
    [line7  |-> {"hidden_password", "salt"},
     line8  |-> {"hidden_password", "salt", "value"},
     line10 |-> {"hidden_password", "salt", "value", "encoded"},
     line11 |-> {"hidden_password", "salt", "value", "encoded", "k"},
     line12 |-> {"hidden_password", "salt", "value", "encoded", "k"},
     line14 |-> {"hidden_password", "salt", "value", "encoded", "k",
                 "password"},
     exit   |-> {"hidden_password", "salt", "value", "encoded", "k",
                 "password"}]

\* C9: for hidden_password = 544387104597 and salt = 1754933492 the sum
\* is exactly 546142038089, and the steps run in the order add, encode to
\* 32 big-endian bytes, hash those 32 bytes once, read the digest
\* big-endian: the password is the reading of Keccak-256 of the encoding.
C9_ConcreteScenario ==
    (hidden_password = HiddenPasswordLit /\ salt = SaltLit) =>
        /\ bound = BoundAt[pc]
        /\ raised = <<>>
        /\ "value" \in bound =>
              value = PyLit(FALSE, <<5, 4, 6, 1, 4, 2, 0, 3, 8, 0, 8, 9>>)
        /\ "encoded" \in bound => encoded = Encoded546142038089
        /\ pc = "line11" => k.data = <<>>
        /\ pc \in {"line12", "line14", "exit"} => k.data = encoded
        /\ "k" \in bound => k.digest_bits = 256
        /\ "password" \in bound =>
              /\ digest = Keccak256OfScenario
              /\ password = MkInt(FALSE, Keccak256OfScenario)
        /\ pc = "exit" =>
              stdout = <<[label |-> "Password:",
                          number |-> PyStr(MkInt(FALSE, Keccak256OfScenario))]>>

C9_Witness ==
    /\ hidden_password = HiddenPasswordLit
    /\ salt = SaltLit
    /\ pc = "exit"
    /\ encoded = Encoded546142038089
    /\ digest = Keccak256OfScenario
    /\ Len(stdout) = 1

\* C10: two runs whose inputs have the same sum give the same password,
\* so swapping the inputs, or moving 1 from one input to the other,
\* changes nothing.
C10_OnlyTheSum ==
    (/\ pc = "exit"
     /\ last # <<>>
     /\ NonNegInputs
     /\ Len(hidden_password.mag) <= 2 /\ Len(salt.mag) <= 2
     /\ NatOf(last[1].hidden_password.mag) + NatOf(last[1].salt.mag)
          = NatOf(hidden_password.mag) + NatOf(salt.mag)) =>
        /\ "password" \in bound
        /\ "password" \in last[1].bound
        /\ last[1].password = password

\* the run before had the inputs swapped
C10_WitnessSwapped ==
    /\ pc = "exit"
    /\ last # <<>>
    /\ hidden_password # salt
    /\ last[1].hidden_password = salt
    /\ last[1].salt = hidden_password
    /\ "password" \in bound
    /\ last[1].password = password

====
